---- MODULE Spec2Model ----
(***************************************************************************)
(* Model of the two Streamlit scripts app.py and app3.py: the symbol       *)
(* resolver get_yahoo_symbol_via_api, the quote fetcher fetch_single_stock,*)
(* the stage-one mapper fetch_yahoo_tickers_parallel and the script steps  *)
(* that chain them through st.session_state and Yahoo_Tickers.csv.         *)
(***************************************************************************)
EXTENDS Integers, Sequences, FiniteSets, TLC

VARIABLES
    variant,          \* which script runs: "app" (app.py) or "app3" (app3.py)
    rcall,            \* one call of get_yahoo_symbol_via_api: input, backend, outcome
    fcall,            \* one call of fetch_single_stock: input, provider, outcome
    master,           \* rows of Master.csv
    nse_data,         \* st.session_state['nse_data']
    yahoo_data,       \* st.session_state['yahoo_data']
    tickers_csv,      \* the file Yahoo_Tickers.csv
    refresh_tickers,  \* the checkbox of app3.py
    pc,               \* position of the script's main thread
    tasks1,           \* futures of the stage-one executor
    results,          \* the list `results` of fetch_yahoo_tickers_parallel
    written,          \* per slot of `results`, the tasks that assigned it
    tasks2,           \* futures of the stage-two executor
    data,             \* the list `data` of step 3
    exported,         \* rows written by result_df.to_excel
    ui,               \* the st.warning / st.error / st.success of the last run
    runs,             \* number of script runs started by the user so far
    pool              \* max_workers of the ThreadPoolExecutor in use (0: none)

vars == <<variant, rcall, fcall, master, nse_data, yahoo_data, tickers_csv,
          refresh_tickers, pc, tasks1, results, written, tasks2, data,
          exported, ui, runs, pool>>

pipeVars == <<master, nse_data, yahoo_data, tickers_csv, refresh_tickers, pc,
              tasks1, results, written, tasks2, data, exported, ui, runs,
              pool>>

Variants == {"app", "app3"}

(***************************************************************************)
(* Bounds of the model.                                                    *)
(***************************************************************************)
MaxQuotes == 2       \* candidates in one search response
MaxHist == 2         \* sessions in one history response
MaxCompanies == 2    \* rows of Master.csv
MaxRuns == 2         \* script runs the user starts (clicks, toggles, sessions)

(***************************************************************************)
(* Python values that travel through the scripts.  Every value is a record *)
(* of the same shape so that values of different Python types compare.     *)
(* Prices are counted in thousandths.                                      *)
(***************************************************************************)
PyStr(x) == [t |-> "str", s |-> x, n |-> 0]
PyNum(k) == [t |-> "num", s |-> "", n |-> k]
None == [t |-> "None", s |-> "", n |-> 0]
NaN == [t |-> "nan", s |-> "", n |-> 0]

\* bool(x) of Python
Truthy(x) ==
    CASE x.t = "str" -> x.s # ""
      [] x.t = "num" -> x.n # 0
      [] x.t = "None" -> FALSE
      [] x.t = "nan" -> TRUE

\* pd.isna(x) on a scalar
pd_isna(x) == x.t \in {"None", "nan"}

(***************************************************************************)
(* get_yahoo_symbol_via_api                                                *)
(***************************************************************************)
\* A company name cell: a string, kept as its characters, or the float NaN
\* pandas gives for an empty cell.
NameStr(cs) == [isstr |-> TRUE, chars |-> cs]
NameNaN == [isstr |-> FALSE, chars |-> <<>>]

CompanyNames == {NameStr(<<"A">>), NameStr(<<"A", " ", "B">>)}
NameCells == CompanyNames \cup {NameNaN}

\* company_name.replace(" ", "%20")
RECURSIVE str_replace(_)
str_replace(cs) ==
    IF cs = <<>> THEN <<>>
    ELSE (IF Head(cs) = " " THEN <<"%", "2", "0">> ELSE <<Head(cs)>>)
         \o str_replace(Tail(cs))

Exchanges == {"NSI", "BSE", "NYQ"}
Symbols == {PyStr("S1.NS"), PyStr("S2.BO"), PyStr("")}
Candidates == [exchange : Exchanges, symbol : Symbols]

SeqsUpTo(S, k) == UNION {[1..m -> S] : m \in 0..k}

\* What the search endpoint does with one request.
\*   network_error  requests.get raises
\*   timeout        requests.get raises a timeout
\*   stall          the endpoint never answers
\*   bad_json       r.json() raises
\*   ok             r.json() is a dict whose "quotes" is the list `quotes`
Failures == {"network_error", "timeout", "stall", "bad_json"}
Backends ==
    {[kind |-> k, quotes |-> <<>>] : k \in Failures}
    \cup {[kind |-> "ok", quotes |-> q] : q \in SeqsUpTo(Candidates, MaxQuotes)}

Return(v) == [kind |-> "return", value |-> v, exc |-> ""]
Raise(e) == [kind |-> "raise", value |-> None, exc |-> e]
Hang == [kind |-> "hang", value |-> None, exc |-> ""]

AcceptedExchanges == {"NSI", "BSE"}

\* a loop without the early return: the last accepted candidate wins
RECURSIVE last_match(_)
last_match(quotes) ==
    IF quotes = <<>> THEN None
    ELSE LET rest == last_match(Tail(quotes)) IN
         IF rest # None THEN rest
         ELSE IF Head(quotes).exchange \in AcceptedExchanges
              THEN Head(quotes).symbol
              ELSE None

\* the loop `for item in data.get("quotes", [])` with its early return
RECURSIVE first_match(_)
first_match(quotes) ==
    IF quotes = <<>> THEN None
    ELSE IF Head(quotes).exchange \in AcceptedExchanges
         THEN Head(quotes).symbol
         ELSE first_match(Tail(quotes))

\* requests.get(url, headers=headers[, timeout=5]): app3.py passes timeout=5,
\* so a stalled endpoint becomes a timeout exception; app.py passes none, so
\* the call blocks for as long as the endpoint stays silent.
requests_get(v, b) ==
    CASE b.kind = "network_error" -> Raise("ConnectionError")
      [] b.kind = "timeout" -> Raise("Timeout")
      [] b.kind = "stall" -> IF v = "app3" THEN Raise("Timeout") ELSE Hang
      [] OTHER -> Return(None)

\* the body of the try block
resolve_try(v, b) ==
    LET r == requests_get(v, b) IN
    IF r.kind # "return" THEN r
    ELSE IF b.kind = "bad_json" THEN Raise("JSONDecodeError")
    ELSE Return(first_match(b.quotes))

\* no except clause: the exception leaves the function
resolve_no_except(r) == r

\* the except clause: every exception of the try block becomes None
resolve_except(r) == IF r.kind = "raise" THEN Return(None) ELSE r

get_yahoo_symbol_via_api(v, name, b) ==
    IF ~name.isstr THEN Raise("AttributeError")   \* .replace on a float
    ELSE resolve_except(resolve_try(v, b))

(***************************************************************************)
(* fetch_single_stock                                                      *)
(***************************************************************************)
Missing == [t |-> "missing", s |-> "", n |-> 0]    \* a key the dict lacks

Prices == {100500, 101239}     \* 100.50 and 101.239
InfoValues == {PyNum(x) : x \in Prices} \cup {Missing}
Infos == [regularMarketPrice : InfoValues,
          fiftyTwoWeekHigh : InfoValues,
          fiftyTwoWeekLow : InfoValues]
Sessions == [High : Prices, Low : Prices]

\* What the market-data provider does during one fetch.  `fail` names the
\* call that raises: the Ticker constructor, ticker.info, ticker.history, or
\* the access to the High/Low columns of the last row ("columns").
ProviderFailures == {"Ticker", "info", "history", "columns"}
ProvidersOver(hists) ==
    [fail : {"none"} \cup ProviderFailures, info : Infos, hist : hists]
Providers == ProvidersOver(SeqsUpTo(Sessions, MaxHist))

Clocks == {[day |-> 1, sec |-> 7]}

\* datetime.today().strftime('%Y-%m-%d') in app.py, under the key "Date";
\* datetime.now().strftime("%Y-%m-%d %H:%M:%S") in app3.py, under "Scraped At"
strftime(v, now) ==
    IF v = "app"
    THEN [key |-> "Date", day |-> now.day, sec |-> 0]
    ELSE [key |-> "Scraped At", day |-> now.day, sec |-> now.sec]

\* round(x, 2) on a price in thousandths (ties to even)
round2(x) ==
    LET q == x \div 10
        r == x % 10
    IN  IF r < 5 THEN q * 10
        ELSE IF r > 5 THEN (q + 1) * 10
        ELSE IF q % 2 = 0 THEN q * 10 ELSE (q + 1) * 10

\* today's high or low from the last session: app3.py rounds, app.py does not
session_value(v, x) == IF v = "app3" THEN round2(x) ELSE x

\* a lookup whose default is the error marker
dict_get_strict(val, default) == IF val = Missing THEN PyStr("Error") ELSE val

\* info.get(key, default)
dict_get(val, default) == IF val = Missing THEN default ELSE val

Record(isin, symbol, price, hi52, lo52, high, low, date) ==
    [ISIN |-> isin, Symbol |-> symbol, CurrentPrice |-> price,
     Week52High |-> hi52, Week52Low |-> lo52,
     TodayHigh |-> high, TodayLow |-> low, Date |-> date]

NoRecord == Record(None, None, None, None, None, None, None,
                   [key |-> "", day |-> 0, sec |-> 0])

FReturn(rec, calls) == [kind |-> "return", rec |-> rec, calls |-> calls, exc |-> ""]
FRaise(e, calls) == [kind |-> "raise", rec |-> NoRecord, calls |-> calls, exc |-> e]

\* the record of the "Invalid symbol handling" branch of app3.py
invalid_record(v, symbol, isin, now) ==
    Record(isin, symbol, PyStr("Invalid Symbol"), PyStr("Invalid"),
           PyStr("Invalid"), PyStr("Invalid"), PyStr("Invalid"), strftime(v, now))

\* an except clause that leaves today's high and low as "N/A"
error_record_partial(v, symbol, isin, now) ==
    Record(isin, symbol, PyStr("Error"), PyStr("Error"), PyStr("Error"),
           PyStr("N/A"), PyStr("N/A"), strftime(v, now))

\* the record of the except clause
error_record(v, symbol, isin, now) ==
    Record(isin, symbol, PyStr("Error"), PyStr("Error"), PyStr("Error"),
           PyStr("Error"), PyStr("Error"), strftime(v, now))

\* `if not symbol or pd.isna(symbol)` of app3.py; app.py has no such check
invalid_symbol(v, symbol) == v = "app3" /\ (~Truthy(symbol) \/ pd_isna(symbol))

\* hist.empty
hist_empty(hist) == Len(hist) = 0

\* hist.iloc[0]
first_session(hist) == hist[1]

\* hist.iloc[-1]
last_session(hist) == hist[Len(hist)]

\* the body of the try block
fetch_try(v, symbol, isin, p, now) ==
    IF p.fail = "Ticker" THEN FRaise("Exception", 1)
    ELSE IF p.fail = "info" THEN FRaise("Exception", 2)
    ELSE IF p.fail = "history" THEN FRaise("Exception", 3)
    ELSE IF ~hist_empty(p.hist) /\ p.fail = "columns" THEN FRaise("KeyError", 3)
    ELSE
      LET default == PyStr("N/A")
          high == IF hist_empty(p.hist) THEN default
                  ELSE PyNum(session_value(v, last_session(p.hist).High))
          low == IF hist_empty(p.hist) THEN default
                 ELSE PyNum(session_value(v, last_session(p.hist).Low))
      IN FReturn(Record(isin, symbol,
                        dict_get(p.info.regularMarketPrice, default),
                        dict_get(p.info.fiftyTwoWeekHigh, default),
                        dict_get(p.info.fiftyTwoWeekLow, default),
                        high, low, strftime(v, now)), 3)

\* an except clause that fills the record with "N/A"
fetch_except_na(v, symbol, isin, now, r) ==
    IF r.kind = "raise"
    THEN FReturn(Record(isin, symbol, PyStr("N/A"), PyStr("N/A"), PyStr("N/A"),
                        PyStr("N/A"), PyStr("N/A"), strftime(v, now)), r.calls)
    ELSE r

\* no except clause: the exception leaves the function
fetch_no_except(v, symbol, isin, now, r) == r

\* the except clause: every exception of the try block becomes the error record
fetch_except(v, symbol, isin, now, r) ==
    IF r.kind = "raise" THEN FReturn(error_record(v, symbol, isin, now), r.calls)
    ELSE r

fetch_single_stock(v, symbol, isin, p, now) ==
    IF invalid_symbol(v, symbol)
    THEN FReturn(invalid_record(v, symbol, isin, now), 0)
    ELSE fetch_except(v, symbol, isin, now, fetch_try(v, symbol, isin, p, now))

(***************************************************************************)
(* Data frames, session state and files of the scripts.                    *)
(***************************************************************************)
NoFrame == [present |-> FALSE, cols |-> {}, rows |-> <<>>]
NoFile == [exists |-> FALSE, cols |-> {}, rows |-> <<>>]
NoExport == [done |-> FALSE, rows |-> <<>>]
NoMaster == [ok |-> FALSE, has_isin |-> FALSE, names |-> <<>>]

NoOutcome == [kind |-> "none", value |-> None, exc |-> ""]
NoFOutcome == [kind |-> "none", rec |-> NoRecord, calls |-> 0, exc |-> ""]

RIdle == [phase |-> "idle", name |-> NameNaN, query |-> <<>>,
          backend |-> [kind |-> "ok", quotes |-> <<>>], outcome |-> NoOutcome]

FIdle == [phase |-> "idle", symbol |-> None, isin |-> None,
          provider |-> [fail |-> "none",
                        info |-> [regularMarketPrice |-> Missing,
                                  fiftyTwoWeekHigh |-> Missing,
                                  fiftyTwoWeekLow |-> Missing],
                        hist |-> <<>>],
          now |-> [day |-> 0, sec |-> 0], outcome |-> NoFOutcome]

\* the session and the files before any script run
PipeOff ==
    /\ master = NoMaster
    /\ nse_data = NoFrame
    /\ yahoo_data = NoFrame
    /\ tickers_csv = NoFile
    /\ refresh_tickers = FALSE
    /\ pc = "idle"
    /\ tasks1 = <<>>
    /\ results = <<>>
    /\ written = <<>>
    /\ tasks2 = <<>>
    /\ data = <<>>
    /\ exported = NoExport
    /\ ui = {}
    /\ runs = 0
    /\ pool = 0

(***************************************************************************)
(* SpecResolve: single calls of get_yahoo_symbol_via_api, over every name  *)
(* cell and every behaviour of the search endpoint.                        *)
(***************************************************************************)
InitResolve ==
    /\ variant \in Variants
    /\ \E nm \in NameCells, b \in Backends :
          rcall = [phase |-> "called", name |-> nm, query |-> <<>>,
                   backend |-> b, outcome |-> NoOutcome]
    /\ fcall = FIdle
    /\ PipeOff

\* One call runs to its end: it returns, raises, or blocks in requests.get.
ResolveCall ==
    /\ rcall.phase = "called"
    /\ LET out == get_yahoo_symbol_via_api(variant, rcall.name, rcall.backend) IN
       rcall' = [rcall EXCEPT
                   !.phase = IF out.kind = "hang" THEN "blocked" ELSE "done",
                   !.query = IF rcall.name.isstr
                             THEN str_replace(rcall.name.chars) ELSE <<>>,
                   !.outcome = out]
    /\ UNCHANGED <<variant, fcall, pipeVars>>

NextResolve == ResolveCall

SpecResolve == InitResolve /\ [][NextResolve]_vars

(***************************************************************************)
(* SpecFetch: single calls of fetch_single_stock, over every symbol value  *)
(* and every behaviour of the market-data provider.                        *)
(***************************************************************************)
SymbolValues == {PyStr("S1.NS"), PyStr(""), None, NaN, PyNum(0), PyNum(123)}
IsinValues == {PyStr("IN1"), PyStr("")}

InitFetch ==
    /\ variant \in Variants
    /\ rcall = RIdle
    /\ \E sy \in SymbolValues, i \in IsinValues, p \in Providers, c \in Clocks :
          fcall = [phase |-> "called", symbol |-> sy, isin |-> i,
                   provider |-> p, now |-> c, outcome |-> NoFOutcome]
    /\ PipeOff

FetchCall ==
    /\ fcall.phase = "called"
    /\ fcall' = [fcall EXCEPT
                   !.phase = "done",
                   !.outcome = fetch_single_stock(variant, fcall.symbol,
                                   fcall.isin, fcall.provider, fcall.now)]
    /\ UNCHANGED <<variant, rcall, pipeVars>>

NextFetch == FetchCall

SpecFetch == InitFetch /\ [][NextFetch]_vars

(***************************************************************************)
(* Properties of get_yahoo_symbol_via_api, checked under SpecResolve.      *)
(***************************************************************************)
AcceptedAt(q) == {i \in DOMAIN q : q[i].exchange \in {"NSI", "BSE"}}
Least(S) == CHOOSE i \in S : \A j \in S : i <= j

C4_FirstMatch ==
    (rcall.phase = "done" /\ rcall.name.isstr /\ rcall.backend.kind = "ok") =>
      LET q == rcall.backend.quotes
          acc == AcceptedAt(q)
      IN  /\ rcall.outcome.kind = "return"
          /\ acc # {} => rcall.outcome.value = q[Least(acc)].symbol
          /\ (rcall.outcome.value = None) <=> (acc = {})

C4_Witness ==
    /\ rcall.phase = "done"
    /\ rcall.name.isstr
    /\ rcall.backend.kind = "ok"
    /\ Len(rcall.backend.quotes) = 2
    /\ AcceptedAt(rcall.backend.quotes) = {1, 2}
    /\ rcall.backend.quotes[1].symbol # rcall.backend.quotes[2].symbol
    /\ rcall.outcome = Return(rcall.backend.quotes[1].symbol)

(***************************************************************************)
(* Properties of fetch_single_stock, checked under SpecFetch.              *)
(***************************************************************************)
Metrics == {"CurrentPrice", "Week52High", "Week52Low", "TodayHigh", "TodayLow"}
RecordFields == {"ISIN", "Symbol", "Date"} \cup Metrics

UsableSymbol(x) == x.t = "str" /\ x.s # ""
ProviderFails(p) ==
    \/ p.fail \in {"Ticker", "info", "history"}
    \/ p.fail = "columns" /\ Len(p.hist) > 0

IsInvalidRecord(rec) ==
    /\ rec.CurrentPrice = PyStr("Invalid Symbol")
    /\ \A m \in Metrics \ {"CurrentPrice"} : rec[m] = PyStr("Invalid")
IsErrorRecord(rec) == \A m \in Metrics : rec[m] = PyStr("Error")

\* C5: for every symbol that is empty, None/NaN or not a string, the call
\* returns the invalid-symbol record and makes no call to the provider.
C5_InvalidShortCircuit ==
    (fcall.phase = "done" /\ ~UsableSymbol(fcall.symbol)) =>
      /\ fcall.outcome.kind = "return"
      /\ IsInvalidRecord(fcall.outcome.rec)
      /\ fcall.outcome.calls = 0

\* C6: when the provider answers, each of the three snapshot fields of the
\* record is "N/A" exactly when the snapshot lacks it and is the snapshot's
\* value otherwise; the record is never the error record.
C6_PartialDegradation ==
    (fcall.phase = "done" /\ UsableSymbol(fcall.symbol)
       /\ ~ProviderFails(fcall.provider)) =>
      LET info == fcall.provider.info
          rec == fcall.outcome.rec
          Field(val, out) ==
              /\ (val = Missing) <=> (out = PyStr("N/A"))
              /\ val # Missing => out = val
      IN  /\ fcall.outcome.kind = "return"
          /\ Field(info.regularMarketPrice, rec.CurrentPrice)
          /\ Field(info.fiftyTwoWeekHigh, rec.Week52High)
          /\ Field(info.fiftyTwoWeekLow, rec.Week52Low)
          /\ \A m \in Metrics : rec[m] # PyStr("Error")

C6_Witness ==
    /\ fcall.phase = "done"
    /\ UsableSymbol(fcall.symbol)
    /\ ~ProviderFails(fcall.provider)
    /\ fcall.provider.info.fiftyTwoWeekHigh = Missing
    /\ fcall.provider.info.regularMarketPrice = PyNum(100500)
    /\ fcall.provider.info.fiftyTwoWeekLow = PyNum(101239)
    /\ fcall.outcome.rec.Week52High = PyStr("N/A")
    /\ fcall.outcome.rec.CurrentPrice = PyNum(100500)
    /\ fcall.outcome.rec.Week52Low = PyNum(101239)

\* the snapshot fields of the record are those the same call gives with
\* the one-session history <<s>> in place of its own
SameSnapshotAs(s) ==
    LET other == fetch_single_stock(variant, fcall.symbol, fcall.isin,
                     [fcall.provider EXCEPT !.fail = "none", !.hist = <<s>>],
                     fcall.now).rec
        rec == fcall.outcome.rec
    IN  /\ rec.CurrentPrice = other.CurrentPrice
        /\ rec.Week52High = other.Week52High
        /\ rec.Week52Low = other.Week52Low

EmptyHistoryCase ==
    (fcall.phase = "done" /\ UsableSymbol(fcall.symbol)
       /\ ~ProviderFails(fcall.provider) /\ fcall.provider.hist = <<>>) =>
      /\ fcall.outcome.kind = "return"
      /\ fcall.outcome.rec.TodayHigh = PyStr("N/A")
      /\ fcall.outcome.rec.TodayLow = PyStr("N/A")
      /\ ~IsErrorRecord(fcall.outcome.rec)
      /\ \A s \in Sessions : SameSnapshotAs(s)

\* v is x (thousandths) rounded to two decimal places
IsRounded2(v, x) == v % 10 = 0 /\ v - x <= 5 /\ x - v <= 5

\* C7 as stated: with an empty history today's high and low are "N/A", the
\* record is not an error record and the snapshot fields are unaffected;
\* with a non-empty history today's high and low are the High and Low of
\* the most recent session.
C7_AsStated ==
    /\ EmptyHistoryCase
    /\ (fcall.phase = "done" /\ UsableSymbol(fcall.symbol)
          /\ ~ProviderFails(fcall.provider) /\ fcall.provider.hist # <<>>) =>
         LET last == fcall.provider.hist[Len(fcall.provider.hist)] IN
         /\ fcall.outcome.rec.TodayHigh = PyNum(last.High)
         /\ fcall.outcome.rec.TodayLow = PyNum(last.Low)

\* C7 amended: as stated, except that with a non-empty history app3.py gives
\* the High and Low of the most recent session rounded to two decimal
\* places (app.py gives them as they are).
C7_EmptyHistory ==
    /\ EmptyHistoryCase
    /\ (fcall.phase = "done" /\ UsableSymbol(fcall.symbol)
          /\ ~ProviderFails(fcall.provider) /\ fcall.provider.hist # <<>>) =>
         LET last == fcall.provider.hist[Len(fcall.provider.hist)]
             rec == fcall.outcome.rec
         IN  /\ rec.TodayHigh.t = "num"
             /\ rec.TodayLow.t = "num"
             /\ variant = "app" => /\ rec.TodayHigh.n = last.High
                                   /\ rec.TodayLow.n = last.Low
             /\ variant = "app3" => /\ IsRounded2(rec.TodayHigh.n, last.High)
                                    /\ IsRounded2(rec.TodayLow.n, last.Low)

C7_Witness ==
    /\ fcall.phase = "done"
    /\ UsableSymbol(fcall.symbol)
    /\ fcall.provider.fail = "none"
    /\ fcall.provider.hist = <<>>
    /\ fcall.provider.info.regularMarketPrice = PyNum(101239)
    /\ fcall.outcome.rec.TodayHigh = PyStr("N/A")
    /\ fcall.outcome.rec.TodayLow = PyStr("N/A")
    /\ fcall.outcome.rec.CurrentPrice = PyNum(101239)

\* C8: when a call to the provider fails, the call returns the record whose
\* five metric fields are "Error", a value other than "N/A", and which
\* carries the caller's identifier and symbol.
C8_ProviderFailure ==
    (fcall.phase = "done" /\ ProviderFails(fcall.provider)
       /\ fcall.outcome.calls > 0) =>
      /\ fcall.outcome.kind = "return"
      /\ IsErrorRecord(fcall.outcome.rec)
      /\ \A m \in Metrics : fcall.outcome.rec[m] # PyStr("N/A")
      /\ fcall.outcome.rec.ISIN = fcall.isin
      /\ fcall.outcome.rec.Symbol = fcall.symbol

C8_Witness ==
    /\ fcall.phase = "done"
    /\ fcall.provider.fail = "info"
    /\ fcall.outcome.calls = 2
    /\ IsErrorRecord(fcall.outcome.rec)
    /\ fcall.outcome.rec.Symbol = PyStr("S1.NS")
    /\ fcall.outcome.rec.ISIN = PyStr("IN1")

\* C9: every call of fetch_single_stock returns, whatever the symbol value
\* and whatever the provider does, and what it returns is a record with the
\* eight fields.
C9_FetchNeverRaises ==
    fcall.phase = "done" =>
      /\ fcall.outcome.kind = "return"
      /\ DOMAIN fcall.outcome.rec = RecordFields
      /\ fcall.outcome.rec.ISIN = fcall.isin
      /\ fcall.outcome.rec.Symbol = fcall.symbol
      /\ \A m \in Metrics : fcall.outcome.rec[m].t \in {"str", "num"}
      /\ fcall.outcome.rec.Date.key \in {"Date", "Scraped At"}

C9_Witness ==
    /\ fcall.phase = "done"
    /\ fcall.symbol = PyNum(123)
    /\ fcall.provider.fail = "Ticker"
    /\ fcall.outcome.kind = "return"
    /\ fcall.outcome.calls = 1

ErrorSentinel == PyStr("Error")
InvalidSentinels == {PyStr("Invalid Symbol"), PyStr("Invalid")}
UnavailableSentinel == PyStr("N/A")

\* C17: in every record the call returns, one metric holding "Error" means
\* all five hold "Error", one metric holding an invalid marker ("Invalid
\* Symbol", "Invalid") means all five hold an invalid marker, and a record
\* with a number in some metric holds only numbers and "N/A" in its metrics;
\* the three kinds of marker are different values.
C17_SentinelsNeverMixed ==
    /\ ErrorSentinel \notin InvalidSentinels
    /\ UnavailableSentinel \notin InvalidSentinels
    /\ ErrorSentinel # UnavailableSentinel
    /\ (fcall.phase = "done" /\ fcall.outcome.kind = "return") =>
          LET rec == fcall.outcome.rec IN
          /\ (\E m \in Metrics : rec[m] = ErrorSentinel) =>
                (\A m \in Metrics : rec[m] = ErrorSentinel)
          /\ (\E m \in Metrics : rec[m] \in InvalidSentinels) =>
                (\A m \in Metrics : rec[m] \in InvalidSentinels)
          /\ (\E m \in Metrics : rec[m].t = "num") =>
                (\A m \in Metrics : rec[m].t = "num" \/ rec[m] = UnavailableSentinel)

\* the provider delivered a snapshot with a price and failed afterwards: the
\* record holds "Error" in all five metrics, the price too
C17_Witness ==
    /\ fcall.phase = "done"
    /\ fcall.outcome.kind = "return"
    /\ fcall.provider.fail = "history"
    /\ fcall.provider.info.regularMarketPrice.t = "num"
    /\ IsErrorRecord(fcall.outcome.rec)

(***************************************************************************)
(* The pipeline: the script steps of app.py and app3.py.  Streamlit runs   *)
(* the script from the top at every interaction, so every handler starts   *)
(* with step 1 (Master.csv is read into the session again).                *)
(***************************************************************************)
max_threads == 20     \* default of the parameter max_threads of the mapper
max_workers == 15     \* max_workers of the pool of step 3

IsinCodes == <<"IN1", "IN2", "IN3", "IN4">>

Masters ==
    {NoMaster} \cup
    [ok : {TRUE}, has_isin : BOOLEAN, names : SeqsUpTo(NameCells, MaxCompanies)]

\* step 1: pd.read_csv(MASTER_CSV) and the check of the COMPANYNAME column;
\* a file that cannot be read or lacks the column leaves the session as it was
read_master(m, old) ==
    IF ~m.ok THEN old
    ELSE [present |-> TRUE,
          cols |-> {"COMPANYNAME"} \cup (IF m.has_isin THEN {"ISIN"} ELSE {}),
          rows |-> [i \in DOMAIN m.names |->
                      [ISIN |-> IF m.has_isin THEN PyStr(IsinCodes[i]) ELSE Missing,
                       COMPANYNAME |-> m.names[i],
                       YAHOO_SYMBOL |-> Missing]]]

\* df['YAHOO_SYMBOL'] = symbols
set_symbols(df, symbols) ==
    [df EXCEPT !.cols = @ \cup {"YAHOO_SYMBOL"},
               !.rows = [i \in DOMAIN df.rows |->
                           [df.rows[i] EXCEPT !.YAHOO_SYMBOL = symbols[i]]]]

\* df.dropna(subset=['YAHOO_SYMBOL'])
dropna(df) ==
    [df EXCEPT !.rows = SelectSeq(df.rows, LAMBDA r : ~pd_isna(r.YAHOO_SYMBOL))]

\* the text to_csv writes for a cell: a missing value becomes the empty field
cell_text(x) == IF x.t = "str" THEN x.s ELSE ""

\* df.to_csv(TICKERS_CSV, index=False)
to_csv(df) ==
    [exists |-> TRUE,
     cols |-> df.cols,
     rows |-> [i \in DOMAIN df.rows |->
                 [ISIN |-> cell_text(df.rows[i].ISIN),
                  COMPANYNAME |-> df.rows[i].COMPANYNAME.chars,
                  YAHOO_SYMBOL |-> cell_text(df.rows[i].YAHOO_SYMBOL)]]]

\* the strings pd.read_csv reads as a missing value (those within reach of
\* the symbols of the model)
NaStrings == {"", "NA", "N/A", "NULL", "NaN", "nan", "null", "None", "n/a", "#N/A"}

parse_cell(txt) == IF txt \in NaStrings THEN NaN ELSE PyStr(txt)

\* pd.read_csv(TICKERS_CSV)
read_csv(f) ==
    [present |-> TRUE,
     cols |-> f.cols,
     rows |-> [i \in DOMAIN f.rows |->
                 [ISIN |-> IF "ISIN" \in f.cols
                           THEN parse_cell(f.rows[i].ISIN) ELSE Missing,
                  COMPANYNAME |-> IF f.rows[i].COMPANYNAME = <<>> THEN NameNaN
                                  ELSE NameStr(f.rows[i].COMPANYNAME),
                  YAHOO_SYMBOL |-> IF "YAHOO_SYMBOL" \in f.cols
                                   THEN parse_cell(f.rows[i].YAHOO_SYMBOL)
                                   ELSE Missing]]]

\* step 2 of app3.py when the script runs: the saved file is loaded unless
\* the checkbox is ticked or the file does not exist
load_saved(v, refresh, f, old) ==
    IF v = "app3" /\ ~refresh /\ f.exists THEN read_csv(f) ELSE old

\* row.get('ISIN', '')
row_isin(df, r) == IF "ISIN" \in df.cols THEN r.ISIN ELSE PyStr("")

Task1(name) == [state |-> "queued", arg |-> name, outcome |-> NoOutcome]
Task2(sy, i) == [state |-> "queued", symbol |-> sy, isin |-> i, outcome |-> NoFOutcome]

Busy(tasks) == {i \in DOMAIN tasks : tasks[i].state \in {"running", "blocked"}}
AllYielded(tasks) == \A i \in DOMAIN tasks : tasks[i].state = "yielded"
Yielded(tasks) == {i \in DOMAIN tasks : tasks[i].state = "yielded"}

\* the search responses the stage-one workers of the pipeline meet
PipeBackends == {b \in Backends : Len(b.quotes) <= 1}

\* the providers the stage-two workers of the pipeline meet
PipeInfos ==
    {[regularMarketPrice |-> PyNum(100500), fiftyTwoWeekHigh |-> h,
      fiftyTwoWeekLow |-> PyNum(100500)] : h \in {PyNum(101239), Missing}}
PipeProviders ==
    {p \in ProvidersOver({<<>>, <<[High |-> 101239, Low |-> 100500]>>}) :
        p.info \in PipeInfos /\ p.fail \in {"none", "history"}}

Init ==
    /\ variant \in Variants
    /\ rcall = RIdle
    /\ fcall = FIdle
    /\ master \in Masters
    /\ nse_data = read_master(master, NoFrame)
    /\ yahoo_data = NoFrame
    /\ tickers_csv = NoFile
    /\ refresh_tickers = FALSE
    /\ pc = "idle"
    /\ tasks1 = <<>>
    /\ results = <<>>
    /\ written = <<>>
    /\ tasks2 = <<>>
    /\ data = <<>>
    /\ exported = NoExport
    /\ ui = {}
    /\ runs = 0
    /\ pool = 0

\* the button "Find Yahoo Tickers": the call of fetch_yahoo_tickers_parallel
\* up to the creation of `results`
ClickFind ==
    /\ pc = "idle"
    /\ runs < MaxRuns
    /\ runs' = runs + 1
    /\ tasks2' = <<>>
    /\ data' = <<>>
    /\ variant = "app3" => (refresh_tickers \/ ~tickers_csv.exists)
    /\ LET df == read_master(master, nse_data) IN
       /\ nse_data' = df
       /\ IF ~df.present
          THEN /\ ui' = {"warn_no_master"}
               /\ pc' = pc
               /\ pool' = 0
               /\ tasks1' = <<>>
               /\ results' = <<>>
               /\ written' = <<>>
          ELSE /\ ui' = {}
               /\ pc' = IF Len(df.rows) = 0 THEN "s1_collect" ELSE "s1_submit"
               /\ pool' = max_threads
               /\ tasks1' = <<>>
               /\ results' = [i \in DOMAIN df.rows |-> None]
               /\ written' = [i \in DOMAIN df.rows |-> {}]
    /\ UNCHANGED <<variant, rcall, fcall, master, yahoo_data, tickers_csv,
                   refresh_tickers, exported>>

\* one executor.submit of the dict comprehension
Submit1 ==
    /\ pc = "s1_submit"
    /\ LET i == Len(tasks1) + 1 IN
       /\ tasks1' = Append(tasks1, Task1(nse_data.rows[i].COMPANYNAME))
       /\ pc' = IF i = Len(nse_data.rows) THEN "s1_collect" ELSE "s1_submit"
    /\ UNCHANGED <<variant, rcall, fcall, master, nse_data, yahoo_data,
                   tickers_csv, refresh_tickers, results, written, tasks2,
                   data, exported, ui, runs, pool>>

\* ThreadPoolExecutor(max_workers=width): at most `width` worker threads, so
\* a task is taken only while fewer than `width` tasks are being run
worker_free(tasks, width) == Cardinality(Busy(tasks)) < width

\* the work queue of the executor is first in, first out
head_of_queue(tasks, i) == \A j \in 1..(i - 1) : tasks[j].state # "queued"

\* a free worker of the pool takes the task at the head of the queue
Start1(i) ==
    /\ tasks1[i].state = "queued"
    /\ head_of_queue(tasks1, i)
    /\ worker_free(tasks1, pool)
    /\ tasks1' = [tasks1 EXCEPT ![i].state = "running"]
    /\ UNCHANGED <<variant, rcall, fcall, master, nse_data, yahoo_data,
                   tickers_csv, refresh_tickers, pc, results, written, tasks2,
                   data, exported, ui, runs, pool>>

\* the worker runs get_yahoo_symbol_via_api to its end, or blocks in it
Run1(i) ==
    /\ tasks1[i].state = "running"
    /\ \E b \in PipeBackends :
          LET out == get_yahoo_symbol_via_api(variant, tasks1[i].arg, b) IN
          tasks1' = [tasks1 EXCEPT
                       ![i].state = IF out.kind = "hang" THEN "blocked" ELSE "done",
                       ![i].outcome = out]
    /\ UNCHANGED <<variant, rcall, fcall, master, nse_data, yahoo_data,
                   tickers_csv, refresh_tickers, pc, results, written, tasks2,
                   data, exported, ui, runs, pool>>

\* the slot taken from the position in the order of completion
slot_by_arrival(i, k) == k + 1

\* idx = futures[future]: the key under which task i was submitted; k is the
\* number of futures as_completed has given before this one
slot_of(i, k) == i

\* the except clause storing a marker instead of None
collect_value_marks_error(out) ==
    IF out.kind = "return" THEN out.value ELSE PyStr("Error")

\* try: results[idx] = future.result()  except: results[idx] = None
collect_value(out) == IF out.kind = "return" THEN out.value ELSE None

\* one turn of the loop over as_completed(futures)
Collect1(i) ==
    /\ pc = "s1_collect"
    /\ tasks1[i].state = "done"
    /\ LET idx == slot_of(i, Cardinality(Yielded(tasks1))) IN
       /\ results' = [results EXCEPT ![idx] = collect_value(tasks1[i].outcome)]
       /\ written' = [written EXCEPT ![idx] = @ \cup {i}]
    /\ tasks1' = [tasks1 EXCEPT ![i].state = "yielded"]
    /\ UNCHANGED <<variant, rcall, fcall, master, nse_data, yahoo_data,
                   tickers_csv, refresh_tickers, pc, tasks2, data, exported, ui, runs, pool>>

\* a mapper that returns without waiting for its futures
Return1_without_join ==
    /\ pc = "s1_collect"
    /\ Len(tasks1) = Len(nse_data.rows)
    /\ pc' = "s1_returned"
    /\ UNCHANGED <<variant, rcall, fcall, master, nse_data, yahoo_data,
                   tickers_csv, refresh_tickers, tasks1, results, written,
                   tasks2, data, exported, ui, runs, pool>>

\* the loop is over, the pool is shut down: `return results`
Return1 ==
    /\ pc = "s1_collect"
    /\ Len(tasks1) = Len(nse_data.rows)
    /\ AllYielded(tasks1)
    /\ pc' = "s1_returned"
    /\ UNCHANGED <<variant, rcall, fcall, master, nse_data, yahoo_data,
                   tickers_csv, refresh_tickers, tasks1, results, written,
                   tasks2, data, exported, ui, runs, pool>>

\* the rest of step 2: the symbol column, dropna, the session, the file
SaveMapping ==
    /\ pc = "s1_returned"
    /\ LET df == set_symbols(nse_data, results)
           df_valid == dropna(df)
       IN  /\ nse_data' = df
           /\ yahoo_data' = df_valid
           /\ tickers_csv' = to_csv(df_valid)
    /\ ui' = {"mapped"}
    /\ pc' = "idle"
    /\ UNCHANGED <<variant, rcall, fcall, master, refresh_tickers, tasks1,
                   results, written, tasks2, data, exported, runs, pool>>

\* the checkbox of app3.py is toggled: the script runs steps 1 and 2
ToggleRefresh ==
    /\ runs < MaxRuns
    /\ pool' = 0
    /\ runs' = runs + 1
    /\ tasks1' = <<>>
    /\ results' = <<>>
    /\ written' = <<>>
    /\ tasks2' = <<>>
    /\ data' = <<>>
    /\ variant = "app3"
    /\ pc = "idle"
    /\ refresh_tickers' = ~refresh_tickers
    /\ nse_data' = read_master(master, nse_data)
    /\ yahoo_data' = load_saved(variant, refresh_tickers', tickers_csv, yahoo_data)
    /\ ui' = {}
    /\ UNCHANGED <<variant, rcall, fcall, master, tickers_csv, pc, exported>>

\* a new browser session: st.session_state is empty, the files stay
NewSession ==
    /\ runs < MaxRuns
    /\ pool' = 0
    /\ runs' = runs + 1
    /\ tasks1' = <<>>
    /\ results' = <<>>
    /\ written' = <<>>
    /\ tasks2' = <<>>
    /\ data' = <<>>
    /\ pc = "idle"
    /\ tickers_csv.exists
    /\ refresh_tickers' = FALSE
    /\ nse_data' = read_master(master, NoFrame)
    /\ yahoo_data' = load_saved(variant, FALSE, tickers_csv, NoFrame)
    /\ ui' = {}
    /\ UNCHANGED <<variant, rcall, fcall, master, tickers_csv, pc, exported>>

\* the button of step 3, up to the creation of the pool: the script runs
\* steps 1 and 2 first, then the guard of step 3
ClickFetch ==
    /\ pc = "idle"
    /\ runs < MaxRuns
    /\ runs' = runs + 1
    /\ tasks1' = <<>>
    /\ results' = <<>>
    /\ written' = <<>>
    /\ nse_data' = read_master(master, nse_data)
    /\ LET yd == load_saved(variant, refresh_tickers, tickers_csv, yahoo_data) IN
       /\ yahoo_data' = yd
       /\ IF ~yd.present \/ (variant = "app3" /\ Len(yd.rows) = 0)
          THEN /\ ui' = {"warn_no_tickers"}
               /\ pc' = pc
               /\ pool' = 0
               /\ tasks2' = <<>>
               /\ data' = <<>>
          ELSE /\ ui' = {}
               /\ pc' = IF Len(yd.rows) = 0 THEN "s2_collect" ELSE "s2_submit"
               /\ pool' = max_workers
               /\ tasks2' = <<>>
               /\ data' = <<>>
    /\ UNCHANGED <<variant, rcall, fcall, master, tickers_csv, refresh_tickers,
                   exported>>

\* one executor.submit of the list comprehension of step 3
Submit2 ==
    /\ pc = "s2_submit"
    /\ LET i == Len(tasks2) + 1
           row == yahoo_data.rows[i]
       IN  /\ tasks2' = Append(tasks2, Task2(row.YAHOO_SYMBOL, row_isin(yahoo_data, row)))
           /\ pc' = IF i = Len(yahoo_data.rows) THEN "s2_collect" ELSE "s2_submit"
    /\ UNCHANGED <<variant, rcall, fcall, master, nse_data, yahoo_data,
                   tickers_csv, refresh_tickers, tasks1, results, written,
                   data, exported, ui, runs, pool>>

Start2(i) ==
    /\ tasks2[i].state = "queued"
    /\ head_of_queue(tasks2, i)
    /\ worker_free(tasks2, pool)
    /\ tasks2' = [tasks2 EXCEPT ![i].state = "running"]
    /\ UNCHANGED <<variant, rcall, fcall, master, nse_data, yahoo_data,
                   tickers_csv, refresh_tickers, pc, tasks1, results, written,
                   data, exported, ui, runs, pool>>

Run2(i) ==
    /\ tasks2[i].state = "running"
    /\ \E p \in PipeProviders, c \in Clocks :
          tasks2' = [tasks2 EXCEPT
                       ![i].state = "done",
                       ![i].outcome = fetch_single_stock(variant, tasks2[i].symbol,
                                          tasks2[i].isin, p, c)]
    /\ UNCHANGED <<variant, rcall, fcall, master, nse_data, yahoo_data,
                   tickers_csv, refresh_tickers, pc, tasks1, results, written,
                   data, exported, ui, runs, pool>>

\* a loop that appends the record of a completed task twice
Collect2_twice(i) ==
    /\ pc = "s2_collect"
    /\ tasks2[i].state = "done"
    /\ tasks2' = [tasks2 EXCEPT ![i].state = "yielded"]
    /\ IF tasks2[i].outcome.kind = "return"
       THEN /\ data' = Append(Append(data, tasks2[i].outcome.rec),
                              tasks2[i].outcome.rec)
            /\ pc' = pc
       ELSE /\ data' = data
            /\ pc' = "crashed"
    /\ UNCHANGED <<variant, rcall, fcall, master, nse_data, yahoo_data,
                   tickers_csv, refresh_tickers, tasks1, results, written,
                   exported, ui, runs, pool>>

\* data.append(future.result()): an exception of the task would leave the
\* loop and end the script run
Collect2(i) ==
    /\ pc = "s2_collect"
    /\ tasks2[i].state = "done"
    /\ tasks2' = [tasks2 EXCEPT ![i].state = "yielded"]
    /\ IF tasks2[i].outcome.kind = "return"
       THEN /\ data' = Append(data, tasks2[i].outcome.rec)
            /\ pc' = pc
       ELSE /\ data' = data
            /\ pc' = "crashed"
    /\ UNCHANGED <<variant, rcall, fcall, master, nse_data, yahoo_data,
                   tickers_csv, refresh_tickers, tasks1, results, written,
                   exported, ui, runs, pool>>

\* a check that is content with one "N/A" in each of the two columns
all_na_any(rows) ==
    /\ \E i \in DOMAIN rows : rows[i].TodayHigh = PyStr("N/A")
    /\ \E i \in DOMAIN rows : rows[i].TodayLow = PyStr("N/A")

\* (result_df["Today's High"] == "N/A").all() and the same for the low
all_na(rows) ==
    /\ \A i \in DOMAIN rows : rows[i].TodayHigh = PyStr("N/A")
    /\ \A i \in DOMAIN rows : rows[i].TodayLow = PyStr("N/A")

\* the end of step 3: the table, the check of app3.py, the export
Export ==
    /\ pc = "s2_collect"
    /\ Len(tasks2) = Len(yahoo_data.rows)
    /\ AllYielded(tasks2)
    /\ exported' = [done |-> TRUE, rows |-> data]
    /\ ui' = (IF variant = "app3" /\ all_na(data) THEN {"all_na"} ELSE {})
             \cup {"fetched"}
    /\ pc' = "idle"
    /\ UNCHANGED <<variant, rcall, fcall, master, nse_data, yahoo_data,
                   tickers_csv, refresh_tickers, tasks1, results, written,
                   tasks2, data, runs, pool>>

Next ==
    \/ ClickFind
    \/ Submit1
    \/ \E i \in DOMAIN tasks1 : Start1(i)
    \/ \E i \in DOMAIN tasks1 : Run1(i)
    \/ \E i \in DOMAIN tasks1 : Collect1(i)
    \/ Return1
    \/ SaveMapping
    \/ ToggleRefresh
    \/ NewSession
    \/ ClickFetch
    \/ Submit2
    \/ \E i \in DOMAIN tasks2 : Start2(i)
    \/ \E i \in DOMAIN tasks2 : Run2(i)
    \/ \E i \in DOMAIN tasks2 : Collect2(i)
    \/ Export

Spec == Init /\ [][Next]_vars

(***************************************************************************)
(* SpecMapper: one call of fetch_yahoo_tickers_parallel, over every data   *)
(* frame of up to MaxCompanies rows, from the creation of `results` to the *)
(* return.                                                                 *)
(***************************************************************************)
InitMapper ==
    /\ variant \in Variants
    /\ rcall = RIdle
    /\ fcall = FIdle
    /\ master \in {m \in Masters : m.ok}
    /\ nse_data = read_master(master, NoFrame)
    /\ yahoo_data = NoFrame
    /\ tickers_csv = NoFile
    /\ refresh_tickers = FALSE
    /\ pc = IF Len(nse_data.rows) = 0 THEN "s1_collect" ELSE "s1_submit"
    /\ tasks1 = <<>>
    /\ results = [i \in DOMAIN nse_data.rows |-> None]
    /\ written = [i \in DOMAIN nse_data.rows |-> {}]
    /\ tasks2 = <<>>
    /\ data = <<>>
    /\ exported = NoExport
    /\ ui = {}
    /\ runs = 1
    /\ pool = max_threads

NextMapper ==
    \/ Submit1
    \/ \E i \in DOMAIN tasks1 : Start1(i)
    \/ \E i \in DOMAIN tasks1 : Run1(i)
    \/ \E i \in DOMAIN tasks1 : Collect1(i)
    \/ Return1

SpecMapper == InitMapper /\ [][NextMapper]_vars


(***************************************************************************)
(* Properties of the mapper (SpecMapper) and of the pipeline (Spec).       *)
(***************************************************************************)
\* C1: when fetch_yahoo_tickers_parallel has returned, the slot of every
\* task whose worker raised is None and the slot of every other task holds
\* the value its own worker returned; every submitted task ran to its end
\* (none was cancelled), in whatever order the tasks completed.
C1_FailureIsolation ==
    pc = "s1_returned" =>
      /\ Len(tasks1) = Len(nse_data.rows)
      /\ \A i \in DOMAIN tasks1 :
           /\ tasks1[i].state = "yielded"
           /\ tasks1[i].outcome.kind \in {"return", "raise"}
           /\ tasks1[i].outcome.kind = "raise" => results[i] = None
           /\ tasks1[i].outcome.kind = "return" =>
                results[i] = tasks1[i].outcome.value

C1_Witness ==
    /\ pc = "s1_returned"
    /\ \E k, j \in DOMAIN tasks1 :
          /\ k # j
          /\ tasks1[k].outcome.kind = "raise"
          /\ results[k] = None
          /\ tasks1[j].outcome = Return(PyStr("S1.NS"))
          /\ results[j] = PyStr("S1.NS")

\* C2: `results` has one slot per input row; task i was submitted with the
\* company name of row i; once as_completed has given task i, slot i holds
\* the outcome of task i, in whatever order the tasks complete; a slot is
\* assigned by the task of its own index only.
C2_ResultCorrespondence ==
    pc \in {"s1_submit", "s1_collect", "s1_returned"} =>
      /\ Len(results) = Len(nse_data.rows)
      /\ \A i \in DOMAIN tasks1 :
           /\ tasks1[i].arg = nse_data.rows[i].COMPANYNAME
           /\ tasks1[i].state = "yielded" =>
                results[i] = IF tasks1[i].outcome.kind = "return"
                             THEN tasks1[i].outcome.value ELSE None
      /\ \A k \in DOMAIN written : written[k] \subseteq {k}
      /\ pc = "s1_returned" => \A k \in DOMAIN written : written[k] = {k}

C2_Witness ==
    /\ pc = "s1_collect"
    /\ Len(tasks1) = 2
    /\ tasks1[2].state = "yielded"
    /\ tasks1[1].state = "running"
    /\ tasks1[2].outcome = Return(PyStr("S2.BO"))
    /\ results = <<None, PyStr("S2.BO")>>
    /\ written = <<{}, {2}>>

\* C10: every task handed to the stage-two pool has a symbol that is present
\* (neither None nor NaN), whether the stage-two input came from a fresh
\* mapping or from the saved file.
C10_OnlyResolvedReachStageTwo ==
    \A i \in DOMAIN tasks2 : ~pd_isna(tasks2[i].symbol)


(***************************************************************************)
(* SpecStageTwo: one run of step 3 from the creation of the pool to the    *)
(* export, over every list of valid tickers step 2 can leave in the        *)
(* session: df_valid of a mapping of up to MaxCompanies companies, or (in  *)
(* app3.py, checkbox not ticked) the saved file read back.                 *)
(***************************************************************************)
\* what the slots of `results` hold when the mapper returns
StageOneResults == Symbols \cup {None}

InitStageTwo ==
    /\ variant \in Variants
    /\ rcall = RIdle
    /\ fcall = FIdle
    /\ master \in {m \in Masters :
                     m.ok /\ \A i \in DOMAIN m.names : m.names[i] = NameStr(<<"A">>)}
    /\ nse_data = read_master(master, NoFrame)
    /\ refresh_tickers \in (IF variant = "app3" THEN BOOLEAN ELSE {FALSE})
    /\ \E symbols \in [DOMAIN master.names -> StageOneResults] :
          LET df_valid == dropna(set_symbols(nse_data, symbols)) IN
          /\ tickers_csv = to_csv(df_valid)
          /\ yahoo_data = load_saved(variant, refresh_tickers, tickers_csv, df_valid)
    /\ variant = "app3" => Len(yahoo_data.rows) > 0
    /\ pc = IF Len(yahoo_data.rows) = 0 THEN "s2_collect" ELSE "s2_submit"
    /\ tasks1 = <<>>
    /\ results = <<>>
    /\ written = <<>>
    /\ tasks2 = <<>>
    /\ data = <<>>
    /\ exported = NoExport
    /\ ui = {}
    /\ runs = 2
    /\ pool = max_workers

NextStageTwo ==
    \/ Submit2
    \/ \E i \in DOMAIN tasks2 : Start2(i)
    \/ \E i \in DOMAIN tasks2 : Run2(i)
    \/ \E i \in DOMAIN tasks2 : Collect2(i)
    \/ Export

SpecStageTwo == InitStageTwo /\ [][NextStageTwo]_vars

(***************************************************************************)
(* Properties of step 3 (SpecStageTwo).                                    *)
(***************************************************************************)
Bijections(S) == {f \in [S -> S] : \A a, b \in S : f[a] = f[b] => a = b}

\* the collection loop of step 3 has ended
StageTwoFinished == pc = "s2_collect" /\ Len(tasks2) = Len(yahoo_data.rows)
                    /\ AllYielded(tasks2)

\* C11: when stage two finishes, `data` holds exactly one record per row of
\* its input list (none lost, none duplicated), and the records can be
\* matched one to one with the rows so that each record carries the ISIN and
\* the symbol of its row; the order of `data` is the order of completion
\* and need not be the order of the rows.
C11_OneRecordPerInput ==
    (StageTwoFinished \/ exported.done) =>
        /\ Len(data) = Len(yahoo_data.rows)
        /\ \E f \in Bijections(DOMAIN yahoo_data.rows) :
              \A k \in DOMAIN data :
                 /\ data[k].ISIN = row_isin(yahoo_data, yahoo_data.rows[f[k]])
                 /\ data[k].Symbol = yahoo_data.rows[f[k]].YAHOO_SYMBOL

\* two rows with different symbols, collected in the order opposite to the
\* order of the rows
C11_Witness ==
    /\ exported.done
    /\ Len(yahoo_data.rows) = 2
    /\ yahoo_data.rows[1].YAHOO_SYMBOL # yahoo_data.rows[2].YAHOO_SYMBOL
    /\ data[1].Symbol = yahoo_data.rows[2].YAHOO_SYMBOL
    /\ data[2].Symbol = yahoo_data.rows[1].YAHOO_SYMBOL


C19_AllUnavailableSignal ==
    (variant = "app3" /\ pc = "idle" /\ ui # {}) =>
        /\ exported.done
        /\ exported.rows = data
        /\ "fetched" \in ui
        /\ "all_na" \in ui <=>
              \A k \in DOMAIN data :
                 /\ data[k].TodayHigh = UnavailableSentinel
                 /\ data[k].TodayLow = UnavailableSentinel
        /\ (\A k \in DOMAIN data :
               IsErrorRecord(data[k]) \/ IsInvalidRecord(data[k]))
              => "all_na" \notin ui

\* two tickers without a session today: the error is shown and the table of
\* two records is exported
C19_Witness ==
    /\ variant = "app3"
    /\ exported.done
    /\ Len(exported.rows) = 2
    /\ "all_na" \in ui
    /\ "fetched" \in ui

(***************************************************************************)
(* Properties of the sequence of the two stages (Spec).                    *)
(***************************************************************************)
StageOnePcs == {"s1_submit", "s1_collect", "s1_returned"}
StageTwoPcs == {"s2_submit", "s2_collect"}

\* C12: the stages run one after the other.  Once the mapper has returned,
\* every stage-one task has been run and its result collected (no worker is
\* still running); while stage two is under way or one of its tasks exists
\* unfinished, no stage-one task is pending and a mapping is in the session
\* (non-empty in app3.py), so stage two is refused without one; and no
\* stage-two task is unfinished while stage one runs.
C12_StageSequencing ==
    /\ pc = "s1_returned" =>
          Len(tasks1) = Len(nse_data.rows) /\ AllYielded(tasks1)
    /\ (pc \in StageTwoPcs \/ ~AllYielded(tasks2)) =>
          /\ AllYielded(tasks1)
          /\ yahoo_data.present
          /\ variant = "app3" => Len(yahoo_data.rows) > 0
    /\ pc \in StageOnePcs => AllYielded(tasks2)
    /\ (tasks1 # <<>> /\ ~AllYielded(tasks1)) => pc \in {"s1_submit", "s1_collect"}

\* a stage-two worker runs, on a mapping stage one wrote in this session
C12_Witness ==
    /\ pc = "s2_collect"
    /\ \E i \in DOMAIN tasks2 : tasks2[i].state = "running"
    /\ tickers_csv.exists
    /\ yahoo_data.present


(***************************************************************************)
(* SpecMapperFair: SpecMapper with a fair scheduler.  The main thread and  *)
(* the worker threads of the pool are operating-system threads: a thread   *)
(* that can take a step is not left waiting for ever.  A worker that waits *)
(* for a response that never comes (task state "blocked") can take no step.*)
(***************************************************************************)
SpecMapperFair == InitMapper /\ [][NextMapper]_vars /\ WF_vars(NextMapper)

\* C13: every call of fetch_yahoo_tickers_parallel eventually returns with
\* every slot decided, in both variants, because every search request has a
\* bounded timeout and a request that gets no response ends as None.
C13_StageOneTerminates ==
    <>(pc = "s1_returned" /\ Len(tasks1) = Len(nse_data.rows) /\ AllYielded(tasks1))


(***************************************************************************)
(* SpecPool: the pool of fetch_yahoo_tickers_parallel(df, max_threads) at  *)
(* work, from the first submit to the end of the last task.  The width is  *)
(* the parameter max_threads of the function, drawn from 1..MaxCompanies   *)
(* and from its default, so that the rows can outnumber the workers (at    *)
(* the default of 20 that takes a Master.csv of 21 rows).  The scheduler   *)
(* is fair as in SpecMapperFair.                                           *)
(***************************************************************************)
InitPool ==
    /\ variant \in Variants
    /\ rcall = RIdle
    /\ fcall = FIdle
    /\ master \in {m \in Masters : m.ok /\ Len(m.names) > 0}
    /\ nse_data = read_master(master, NoFrame)
    /\ yahoo_data = NoFrame
    /\ tickers_csv = NoFile
    /\ refresh_tickers = FALSE
    /\ pc = "s1_submit"
    /\ tasks1 = <<>>
    /\ results = [i \in DOMAIN nse_data.rows |-> None]
    /\ written = [i \in DOMAIN nse_data.rows |-> {}]
    /\ tasks2 = <<>>
    /\ data = <<>>
    /\ exported = NoExport
    /\ ui = {}
    /\ runs = 1
    /\ pool \in (1..MaxCompanies) \cup {max_threads}

NextPool ==
    \/ Submit1
    \/ \E i \in DOMAIN tasks1 : Start1(i)
    \/ \E i \in DOMAIN tasks1 : Run1(i)

SpecPool == InitPool /\ [][NextPool]_vars /\ WF_vars(NextPool)

\* no more tasks are being run than the pool in use has workers
PoolBound ==
    /\ Cardinality(Busy(tasks1)) <= pool
    /\ Cardinality(Busy(tasks2)) <= pool

\* every row has been submitted and every task has been taken by a worker
AllExecuted ==
    /\ Len(tasks1) = Len(nse_data.rows)
    /\ \A i \in DOMAIN tasks1 : tasks1[i].state # "queued"

\* C15: at every moment at most as many tasks are being run as the pool has
\* workers, however many items are submitted, and every submitted item is
\* eventually taken by a worker and run.
C15_BoundedParallelism == [](PoolBound) /\ <>(AllExecuted)


\* C18: the company dataset held in the session stays as step 1 loaded it
\* from Master.csv (same fields, same rows, same identifiers and names)
\* whatever stage one and stage two do.
C18_CompanyRecordsImmutable ==
    nse_data.present =>
        LET loaded == read_master(master, NoFrame) IN
        /\ nse_data.cols = loaded.cols
        /\ Len(nse_data.rows) = Len(loaded.rows)
        /\ \A i \in DOMAIN nse_data.rows :
              /\ nse_data.rows[i].ISIN = loaded.rows[i].ISIN
              /\ nse_data.rows[i].COMPANYNAME = loaded.rows[i].COMPANYNAME
              /\ nse_data.rows[i].YAHOO_SYMBOL = loaded.rows[i].YAHOO_SYMBOL

====
